---------------------------- MODULE Spec2Model ----------------------------
(***************************************************************************)
(* Model of the forecasting script jamesmillercvForecast.py and of the     *)
(* logging script append_to_sheets.py.                                     *)
(*                                                                         *)
(* The script is one linear pipeline; each stage is modelled with its own  *)
(* variables and its own specification:                                    *)
(*   SpecLoad     - section 1: loading the observation series              *)
(*   SpecSelect   - sections 2-3: SARIMAX grid search and the final fit    *)
(*   SpecForecast - section 5: forecast_period                             *)
(*   SpecPeriods  - section 6: the catalog of forecast periods             *)
(*   SpecRun      - sections 7-10 and append_to_sheets.py: the logged row  *)
(***************************************************************************)
EXTENDS Integers, Sequences, FiniteSets, TLC

VARIABLES
    \* ---- section 1: data load ----
    lpc,                  \* position of the script in section 1
    csv,                  \* the rows of the source dataset, in file order
    df,                   \* df: rows [Date, Views], Date being the index
    \* ---- sections 2-3: grid search and final fit ----
    spc,                  \* position of the script in sections 2-3
    oi,                   \* index of order_candidate in pdq (outer loop)
    si,                   \* index of seasonal_candidate in seasonal_pdq (inner loop)
    best_aic,             \* best_aic
    best_order,           \* best_order (None or a member of pdq)
    best_seasonal_order,  \* best_seasonal_order (None or a 4-tuple)
    model,                \* arguments of the final SARIMAX(...) call of section 3
    fitted_aics,          \* history: the AICs of the candidates fitted so far
    fit_of_best,          \* history: outcome of the fit of the candidate now
                          \*          held in best_order/best_seasonal_order
    \* ---- sections 4-5: bias and forecast_period ----
    fpc,                  \* position: "ready", or "returned" once called
    bias_daily,           \* bias_daily
    start_date,           \* argument start_date of the last call
    end_date,             \* argument end_date of the last call
    get_forecast_steps,   \* the steps= of each results.get_forecast call made
                          \* by the last forecast_period call
    forecast,             \* what get_forecast returned: per day ahead, the
                          \* predicted mean and the confidence bounds
    result,               \* the dict forecast_period returned
    \* ---- section 6: forecast periods ----
    ppc,                  \* position: "start" or "defined"
    today,                \* today (the run date, normalized to midnight)
    periods,              \* periods: name -> <<start, end>>
    \* ---- sections 7-10 and append_to_sheets.py ----
    pc,                   \* position of the forecasting script
    run,                  \* number of runs of the forecasting script started
    results_dict,         \* results_dict: name -> Forecast total (hundredths)
    assembled,            \* history: row as section 9 assembled it
    row,                  \* row
    values,               \* values (line 191)
    appended,             \* history: rows this run has appended
    output_json,          \* the file output.json
    headers,              \* row 1 of the worksheet "Forecast Log"
    sheet,                \* the rows appended to the worksheet, in order
    ats_row,              \* append_to_sheets.py: row of its last run
    ats_values            \* append_to_sheets.py: values of its last run

selectVars == <<spc, oi, si, best_aic, best_order, best_seasonal_order,
                model, fitted_aics, fit_of_best>>

loadVars == <<lpc, csv, df>>

fcVars == <<fpc, bias_daily, start_date, end_date, get_forecast_steps,
            forecast, result>>

periodVars == <<ppc, today, periods>>

runVars == <<pc, run, results_dict, assembled, row, values, appended,
             output_json, headers, sheet, ats_row, ats_values>>

vars == <<loadVars, selectVars, fcVars, periodVars, runVars>>

\* Python's None
None == <<>>

\* The members of a sequence
Range(seq) == {seq[i] : i \in DOMAIN seq}

-----------------------------------------------------------------------------
(***************************************************************************)
(* Section 1: load and prepare data.  Dates are day numbers.               *)
(***************************************************************************)

\* The source holds dates 1 .. MaxDate, at most MaxRows rows, and counts
\* 0 .. MaxCount or a missing count
MaxDate == 4
MaxRows == 3
MaxCount == 1

Counts == 0 .. MaxCount

\* A missing count (NaN after read_csv): a value that is no count
NaN == MaxCount + 1

Row(date, views) == [Date |-> date, Views |-> views]

SourceRows == {Row(d, v) : d \in 1 .. MaxDate, v \in Counts \cup {NaN}}

\* The datasets with distinct dates: asfreq raises on a duplicated index
SourceDatasets ==
    {rows \in UNION {[1 .. n -> SourceRows] : n \in 1 .. MaxRows} :
        \A i, j \in DOMAIN rows : i # j => rows[i].Date # rows[j].Date}

\* Insertion of one row into rows sorted by Date
RECURSIVE Insert(_, _)
Insert(r, sorted) ==
    IF sorted = <<>> THEN << r >>
    ELSE IF r.Date <= Head(sorted).Date THEN << r >> \o sorted
    ELSE << Head(sorted) >> \o Insert(r, Tail(sorted))

\* line 21: df.sort_values("Date").set_index("Date")
RECURSIVE sort_values(_)
sort_values(rows) ==
    IF rows = <<>> THEN <<>>
    ELSE Insert(Head(rows), sort_values(Tail(rows)))

\* fillna with a bug: the missing counts are left as they are
fillna_unfilled(rows, value) == rows

\* line 22: df["Actual Views"].fillna(0)
fillna(rows, value) ==
    [i \in DOMAIN rows |->
        IF rows[i].Views = NaN THEN Row(rows[i].Date, value) ELSE rows[i]]

\* df.index.min() and df.index.max()
index_min(rows) == CHOOSE d \in {r.Date : r \in Range(rows)} :
                      \A r \in Range(rows) : d <= r.Date
index_max(rows) == CHOOSE d \in {r.Date : r \in Range(rows)} :
                      \A r \in Range(rows) : d >= r.Date

\* line 23: df.asfreq("D", fill_value=0): reindex on every day from the
\* first to the last index date; a row present is kept as it is (a NaN in
\* it too), a day with no row gets fill_value
asfreq(rows, fill_value) ==
    [k \in 1 .. (index_max(rows) - index_min(rows) + 1) |->
        LET day == index_min(rows) + k - 1 IN
        IF \E r \in Range(rows) : r.Date = day
          THEN CHOOSE r \in Range(rows) : r.Date = day
          ELSE Row(day, fill_value)]

\* line 20: df as read_csv returns it
LoadStart ==
    /\ lpc = "read"
    /\ csv \in SourceDatasets
    /\ df = csv

\* line 21
SortSetIndex ==
    /\ lpc = "read"
    /\ df' = sort_values(df)
    /\ lpc' = "sorted"
    /\ UNCHANGED <<csv, selectVars, fcVars, periodVars, runVars>>

\* line 22
FillNa ==
    /\ lpc = "sorted"
    /\ df' = fillna(df, 0)
    /\ lpc' = "filled"
    /\ UNCHANGED <<csv, selectVars, fcVars, periodVars, runVars>>

\* lines 23-24
AsFreq ==
    /\ lpc = "filled"
    /\ df' = asfreq(df, 0)
    /\ lpc' = "loaded"
    /\ UNCHANGED <<csv, selectVars, fcVars, periodVars, runVars>>

NextLoad == SortSetIndex \/ FillNa \/ AsFreq

\* The section's variables while another section is studied
LoadIdle ==
    /\ lpc = "idle"
    /\ csv = <<>>
    /\ df = <<>>

-----------------------------------------------------------------------------
(***************************************************************************)
(* Sections 2-3: hyperparameter tuning and final fit                       *)
(***************************************************************************)

\* range(0, 3) and range(0, 2) of lines 36-37: the exclusive stops
OrderStop == 3
SeasonalStop == 2

p == 0 .. (OrderStop - 1)
P == 0 .. (SeasonalStop - 1)

\* s = 7, weekly seasonality
s == 7

\* list(itertools.product(r, r, r)) for r = range(0, n): the n^3 triples in
\* lexicographic order, the last component varying fastest
product(r) ==
    LET n == Cardinality(r)
    IN  [k \in 1 .. (n * n * n) |->
            << (k - 1) \div (n * n), ((k - 1) \div n) % n, (k - 1) % n >>]

\* lines 39-40
pdq == product(p)
seasonal_pdq == product(P)

\* The largest AIC a fit returns in the model; AICs range over 0 .. MaxAIC
MaxAIC == 2
AICValues == 0 .. MaxAIC

\* float("inf"): above every AIC value a fit returns
Inf == MaxAIC + 1

\* What SARIMAX(...).fit() does for one candidate: it raises, or it returns
\* results whose .aic is a number
Raised == [ok |-> FALSE, aic |-> Inf]
Fitted(a) == [ok |-> TRUE, aic |-> a]

\* line 60: the seasonal order built from seasonal_candidate
SeasonalOrder(seasonal_candidate) ==
    << seasonal_candidate[1], seasonal_candidate[2], seasonal_candidate[3], s >>

\* The comparison of line 57 with a bug: only the first fit is kept
ImprovesOnFirstFitOnly(aic, best) == best = Inf

\* line 57: results_test.aic < best_aic
Improves(aic, best) == aic < best

\* Advancing the nested for loops of lines 46-47
NextIndex ==
    IF si < Len(seasonal_pdq)
      THEN /\ si' = si + 1
           /\ oi' = oi
           /\ spc' = "search"
      ELSE IF oi < Len(pdq)
        THEN /\ si' = 1
             /\ oi' = oi + 1
             /\ spc' = "search"
        ELSE /\ si' = si
             /\ oi' = oi
             /\ spc' = "selected"

\* lines 42-44, before the first iteration
SelectStart ==
    /\ spc = "search"
    /\ oi = 1
    /\ si = 1
    /\ best_aic = Inf
    /\ best_order = None
    /\ best_seasonal_order = None
    /\ model = [called |-> FALSE, order |-> None, seasonal_order |-> None]
    /\ fitted_aics = {}
    /\ fit_of_best = Raised

\* One iteration of the loop body whose fit succeeds (lines 48-60)
CandidateFits ==
    /\ spc = "search"
    /\ \E aic \in AICValues :
         /\ IF Improves(aic, best_aic)
              THEN /\ best_aic' = aic
                   /\ best_order' = pdq[oi]
                   /\ best_seasonal_order' = SeasonalOrder(seasonal_pdq[si])
                   /\ fit_of_best' = Fitted(aic)
              ELSE UNCHANGED <<best_aic, best_order, best_seasonal_order, fit_of_best>>
         /\ fitted_aics' = fitted_aics \cup {aic}
    /\ NextIndex
    /\ UNCHANGED <<model, loadVars, fcVars, periodVars, runVars>>

\* One iteration of the loop body whose fit raises (lines 48-56, 61-62)
CandidateRaises ==
    /\ spc = "search"
    /\ NextIndex
    /\ UNCHANGED <<best_aic, best_order, best_seasonal_order, model,
                   fitted_aics, fit_of_best, loadVars, fcVars, periodVars, runVars>>

\* Section 3 (lines 69-76): the final SARIMAX is built from best_order and
\* best_seasonal_order whatever they are, then fitted.  There is no check
\* between the loop and this call.  The call or the fit may raise, which ends
\* the run; with order=None no fit is obtained
FitBest ==
    /\ spc = "selected"
    /\ model' = [called |-> TRUE, order |-> best_order,
                 seasonal_order |-> best_seasonal_order]
    /\ \E ok \in BOOLEAN :
         spc' = IF ok /\ best_order # None THEN "fitted" ELSE "failed"
    /\ UNCHANGED <<oi, si, best_aic, best_order, best_seasonal_order,
                   fitted_aics, fit_of_best, loadVars, fcVars, periodVars, runVars>>

NextSelect == CandidateFits \/ CandidateRaises \/ FitBest

SelectIdle ==
    /\ spc = "idle"
    /\ oi = 0
    /\ si = 0
    /\ best_aic = Inf
    /\ best_order = None
    /\ best_seasonal_order = None
    /\ model = [called |-> FALSE, order |-> None, seasonal_order |-> None]
    /\ fitted_aics = {}
    /\ fit_of_best = Raised

-----------------------------------------------------------------------------
(***************************************************************************)
(* Sections 4-5: bias correction and forecast_period.  Dates are day       *)
(* numbers; every Timestamp involved is at midnight, so that               *)
(* (end_date - last_observed).days is the difference of the day numbers.   *)
(***************************************************************************)

\* The series holds at most MaxObserved days, from day 1 on; a period ends at
\* most MaxHorizon days after the last observed day
MaxObserved == 2
MaxHorizon == 2

Days == 0 .. (MaxObserved + MaxHorizon)

\* The loaded series: one row per day from day 1 on, no gap, no missing count
LoadedSeries ==
    UNION {[1 .. n -> Counts] : n \in 1 .. MaxObserved}

\* bias_daily = residuals.mean() (line 82): any sign
Biases == -1 .. 1

\* One day of results.get_forecast(...): predicted_mean and the two columns
\* of conf_int()
PredValues == 0 .. 1
Predictions == [lower : PredValues, mean : PredValues, upper : PredValues]

\* Series.sum()
RECURSIVE sum(_)
sum(seq) == IF seq = <<>> THEN 0 ELSE Head(seq) + sum(Tail(seq))

\* The rows a boolean mask keeps, in order
RECURSIVE loc(_, _, _)
loc(rows, lo, hi) ==
    IF rows = <<>> THEN <<>>
    ELSE IF Head(rows).Date >= lo /\ Head(rows).Date <= hi
      THEN << Head(rows).Views >> \o loc(Tail(rows), lo, hi)
      ELSE loc(Tail(rows), lo, hi)

\* line 90: df.index.max()
last_observed == index_max(df)

\* forecast_days with a bug: the last observed day is counted in the horizon
forecast_days_inclusive(end) ==
    IF end - last_observed + 1 > 0 THEN end - last_observed + 1 ELSE 0

\* lines 91-92: max((end_date - last_observed).days, 0)
forecast_days(end) ==
    IF end - last_observed > 0 THEN end - last_observed ELSE 0

\* actual_period with a bug: the mask leaves the end date out
actual_period_end_excluded(start, end) == sum(loc(df, start, end - 1))

\* line 94: the sum of the counts the mask start_date <= index <= end_date keeps
actual_period(start, end) == sum(loc(df, start, end))

\* line 98: forecast.predicted_mean - bias_daily
mean(fc, bias) == [k \in DOMAIN fc |-> fc[k].mean - bias]

\* line 100: conf.iloc[:, 0] - bias_daily
conf_lower(fc, bias) == [k \in DOMAIN fc |-> fc[k].lower - bias]

\* conf_upper with a bug: the upper bound is left uncorrected
conf_upper_uncorrected(fc, bias) == [k \in DOMAIN fc |-> fc[k].upper]

\* line 101: conf.iloc[:, 1] - bias_daily
conf_upper(fc, bias) == [k \in DOMAIN fc |-> fc[k].upper - bias]

\* line 111: the dict returned
Result(actual, total, lower, upper) ==
    ("Actual" :> actual) @@ ("Forecast" :> total) @@
    ("CI Lower" :> lower) @@ ("CI Upper" :> upper)

\* Sections 1-4 have run: the series is loaded and the bias is computed
ForecastStart ==
    /\ lpc = "loaded"
    /\ csv = <<>>
    /\ \E counts \in LoadedSeries :
         df = [k \in DOMAIN counts |-> Row(k, counts[k])]
    /\ fpc = "ready"
    /\ bias_daily \in Biases
    /\ start_date = 0
    /\ end_date = 0
    /\ get_forecast_steps = <<>>
    /\ forecast = <<>>
    /\ result = Result(0, 0, 0, 0)

\* lines 88-111: one call forecast_period(start, end); get_forecast returns
\* one prediction per requested step
ForecastPeriod ==
    /\ fpc = "ready"
    /\ \E start, end \in Days :
         /\ end <= last_observed + MaxHorizon
         /\ start_date' = start
         /\ end_date' = end
         /\ IF forecast_days(end) > 0
              THEN \E fc \in [1 .. forecast_days(end) -> Predictions] :
                     /\ get_forecast_steps' = << forecast_days(end) >>
                     /\ forecast' = fc
                     /\ result' = Result(
                            actual_period(start, end),
                            actual_period(start, end) + sum(mean(fc, bias_daily)),
                            actual_period(start, end) + sum(conf_lower(fc, bias_daily)),
                            actual_period(start, end) + sum(conf_upper(fc, bias_daily)))
              ELSE /\ get_forecast_steps' = <<>>
                   /\ forecast' = <<>>
                   /\ result' = Result(actual_period(start, end),
                                       actual_period(start, end),
                                       actual_period(start, end),
                                       actual_period(start, end))
    /\ fpc' = "returned"
    /\ UNCHANGED <<bias_daily, loadVars, selectVars, periodVars, runVars>>

\* lines 136-137: the loop goes on to the next period; the locals of the
\* call are gone
NextPeriod ==
    /\ fpc = "returned"
    /\ fpc' = "ready"
    /\ start_date' = 0
    /\ end_date' = 0
    /\ get_forecast_steps' = <<>>
    /\ forecast' = <<>>
    /\ result' = Result(0, 0, 0, 0)
    /\ UNCHANGED <<bias_daily, loadVars, selectVars, periodVars, runVars>>

NextForecast == ForecastPeriod \/ NextPeriod

ForecastIdle ==
    /\ fpc = "idle"
    /\ bias_daily = 0
    /\ start_date = 0
    /\ end_date = 0
    /\ get_forecast_steps = <<>>
    /\ forecast = <<>>
    /\ result = Result(0, 0, 0, 0)

-----------------------------------------------------------------------------
(***************************************************************************)
(* Section 6: the forecast periods.  A Timestamp at midnight is a record   *)
(* [year, month, day].                                                     *)
(***************************************************************************)

\* The run date ranges over the days of 2026 .. 2026 + MaxYears
MaxYears == 2
Years == 2026 .. (2026 + MaxYears)

is_leap_year(y) == (y % 4 = 0 /\ y % 100 # 0) \/ y % 400 = 0

days_in_month(y, m) ==
    IF m = 2 THEN (IF is_leap_year(y) THEN 29 ELSE 28)
    ELSE IF m \in {4, 6, 9, 11} THEN 30
    ELSE 31

\* pd.Timestamp(year, month, day)
Timestamp(y, m, d) == [year |-> y, month |-> m, day |-> d]

RunDates ==
    {ts \in [year : Years, month : 1 .. 12, day : 1 .. 31] :
        ts.day <= days_in_month(ts.year, ts.month)}

\* ts + pd.Timedelta(days=1)
NextDay(ts) ==
    IF ts.day < days_in_month(ts.year, ts.month)
      THEN Timestamp(ts.year, ts.month, ts.day + 1)
    ELSE IF ts.month < 12 THEN Timestamp(ts.year, ts.month + 1, 1)
    ELSE Timestamp(ts.year + 1, 1, 1)

\* ts + pd.Timedelta(days=n), n >= 0
RECURSIVE Timedelta(_, _)
Timedelta(ts, n) == IF n = 0 THEN ts ELSE Timedelta(NextDay(ts), n - 1)

\* pandas roll_convention: a date before the offset's day of the month uses
\* one of the n steps to reach it, a date after it gives one back
roll_convention(other, n, compare) ==
    IF n > 0 /\ other < compare THEN n - 1
    ELSE IF n <= 0 /\ other > compare THEN n + 1
    ELSE n

\* pandas shift_month: the first or the last day of the month `months` away
shift_month(ts, months, day_opt) ==
    LET idx == ts.year * 12 + (ts.month - 1) + months
        y == idx \div 12
        m == (idx % 12) + 1
    IN  Timestamp(y, m, IF day_opt = "start" THEN 1 ELSE days_in_month(y, m))

\* ts + pd.offsets.MonthEnd(n)
MonthEnd(ts, n) ==
    shift_month(ts,
                roll_convention(ts.day, n, days_in_month(ts.year, ts.month)),
                "end")

\* ts + pd.offsets.MonthBegin(n)
MonthBegin(ts, n) ==
    shift_month(ts, roll_convention(ts.day, n, 1), "start")

\* lines 119-130, in the dict's order
PeriodNames ==
    << "7 Days from Now", "Current Calendar Month", "Next Calendar Month",
       "Next 3 Calendar Months", "First Half of Year", "Last Half of Year",
       "Full Year" >>

\* lines 117-130: the periods dict for a run date
Periods(now) ==
    LET first == Timestamp(now.year, now.month, 1)
        current_year == now.year
    IN  ("7 Days from Now" :> << now, Timedelta(now, 6) >>) @@
        ("Current Calendar Month" :> << first, MonthEnd(first, 0) >>) @@
        ("Next Calendar Month" :> << MonthBegin(first, 1), MonthEnd(first, 1) >>) @@
        ("Next 3 Calendar Months" :> << MonthBegin(first, 1), MonthEnd(first, 3) >>) @@
        ("First Half of Year" :> << Timestamp(current_year, 1, 1),
                                    Timestamp(current_year, 6, 30) >>) @@
        ("Last Half of Year" :> << Timestamp(current_year, 7, 1),
                                   Timestamp(current_year, 12, 31) >>) @@
        ("Full Year" :> << Timestamp(current_year, 1, 1),
                           Timestamp(current_year, 12, 31) >>)

\* line 116: today = pd.Timestamp.now().normalize()
PeriodsStart ==
    /\ ppc = "start"
    /\ today \in RunDates
    /\ periods = << >>

\* lines 117-130
DefinePeriods ==
    /\ ppc = "start"
    /\ periods' = Periods(today)
    /\ ppc' = "defined"
    /\ UNCHANGED <<today, loadVars, selectVars, fcVars, runVars>>

NextPeriods == DefinePeriods

PeriodsIdle ==
    /\ ppc = "idle"
    /\ today = Timestamp(2026, 1, 1)
    /\ periods = << >>

-----------------------------------------------------------------------------
(***************************************************************************)
(* Sections 7-10 of the forecasting script, and append_to_sheets.py.       *)
(* A JSON value or a sheet cell is a record [kind, n]: a number in tenths, *)
(* or a string identified by n, 0 being the empty string and t >= 1 the    *)
(* strftime text of the clock second t.  A JSON object is a function from  *)
(* its keys.                                                               *)
(***************************************************************************)

\* At most MaxRuns runs of the forecasting script, MaxHeaders header cells,
\* and MaxExternalRows rows appended by append_to_sheets.py
MaxRuns == 2
MaxHeaders == 2
MaxExternalRows == 1

Number(tenths) == [kind |-> "number", n |-> tenths]
String(id) == [kind |-> "string", n |-> id]
EmptyString == String(0)

\* The empty JSON object
EmptyObject == [k \in {} |-> EmptyString]

\* Forecast totals, in hundredths
ForecastTotals == {12345, 12355}

\* round(x, 1) of a total in hundredths, in tenths: to the nearest tenth, a
\* tie to the even one
round1(x) ==
    LET q == x \div 10
        r == x % 10
    IN  IF r < 5 THEN q
        ELSE IF r > 5 THEN q + 1
        ELSE IF q % 2 = 0 THEN q ELSE q + 1

\* line 162: datetime.now().strftime(...): the clock second of run number r
strftime(r) == String(r + 1)

\* lines 164-169: the row of section 9
AssembleRow(timestamp, results) ==
    ("Timestamp" :> timestamp) @@
    [name \in Range(PeriodNames) |-> Number(round1(results[name]))]

\* dict.get with a bug: a missing key gives the number 0
get_zero(record, key, default) ==
    IF key \in DOMAIN record THEN record[key] ELSE Number(0)

\* row.get(h, "")
get(record, key, default) ==
    IF key \in DOMAIN record THEN record[key] ELSE default

\* line 191, append_to_sheets.py line 21: [row.get(h, "") for h in headers]
Values(record, hdrs) ==
    [i \in 1 .. Len(hdrs) |-> get(record, hdrs[i], EmptyString)]

\* What output.json may hold when a run starts: nothing in the source writes
\* it, so it is absent, or it is a JSON object some other writer left
File(content) == [exists |-> TRUE, content |-> content]
NoFile == [exists |-> FALSE, content |-> EmptyObject]
LeftFiles ==
    { File(AssembleRow(String(1), [name \in Range(PeriodNames) |-> 9990])),
      File(("Timestamp" :> String(1)) @@ ("7 Days from Now" :> Number(70)) @@
           ("Comment" :> String(1))) }

\* The header cells a sheet may have
HeaderNames == {"Timestamp", "7 Days from Now", "Full Year", "Notes"}
HeaderRows == UNION {[1 .. n -> HeaderNames] : n \in 0 .. MaxHeaders}

\* A process of the forecasting script before it starts
ProcessStart ==
    /\ results_dict = EmptyObject
    /\ assembled = EmptyObject
    /\ row = EmptyObject
    /\ values = << >>
    /\ appended = 0

RunStart ==
    /\ pc = "idle"
    /\ run = 0
    /\ ProcessStart
    /\ output_json \in {NoFile} \cup LeftFiles
    /\ headers \in HeaderRows
    /\ sheet = << >>
    /\ ats_row = EmptyObject
    /\ ats_values = << >>

\* A new process of the forecasting script starts
StartRun ==
    /\ pc \in {"idle", "done", "crashed"}
    /\ run < MaxRuns
    /\ run' = run + 1
    /\ pc' = "forecast"
    /\ results_dict' = EmptyObject
    /\ assembled' = EmptyObject
    /\ row' = EmptyObject
    /\ values' = << >>
    /\ appended' = 0
    /\ UNCHANGED <<output_json, headers, sheet, ats_row, ats_values,
                   loadVars, selectVars, fcVars, periodVars>>

\* Sections 1-8 (lines 135-137): the forecast totals of the seven periods
ComputeForecasts ==
    /\ pc = "forecast"
    /\ results_dict' \in [Range(PeriodNames) -> ForecastTotals]
    /\ pc' = "report"
    /\ UNCHANGED <<run, assembled, row, values, appended, output_json,
                   headers, sheet, ats_row, ats_values,
                   loadVars, selectVars, fcVars, periodVars>>

\* Section 9 (lines 162-171): the row is assembled and printed; it is not
\* written to output.json
PrepareRow ==
    /\ pc = "report"
    /\ row' = AssembleRow(strftime(run), results_dict)
    /\ assembled' = row'
    /\ pc' = "sheets"
    /\ UNCHANGED <<run, results_dict, values, appended, output_json,
                   headers, sheet, ats_row, ats_values,
                   loadVars, selectVars, fcVars, periodVars>>

\* Section 10, lines 177-187: row is replaced by what output.json holds;
\* open() raises when the file is absent
ReadOutputJson ==
    /\ pc = "sheets"
    /\ IF output_json.exists
         THEN /\ row' = output_json.content
              /\ pc' = "read"
         ELSE /\ row' = row
              /\ pc' = "crashed"
    /\ UNCHANGED <<run, results_dict, assembled, values, appended,
                   output_json, headers, sheet, ats_row, ats_values,
                   loadVars, selectVars, fcVars, periodVars>>

\* Section 10, lines 190-193
AppendRow ==
    /\ pc = "read"
    /\ values' = Values(row, headers)
    /\ sheet' = Append(sheet, values')
    /\ appended' = appended + 1
    /\ pc' = "done"
    /\ UNCHANGED <<run, results_dict, assembled, row, output_json, headers,
                   ats_row, ats_values,
                   loadVars, selectVars, fcVars, periodVars>>

\* One run of append_to_sheets.py (lines 17-23); with output.json absent it
\* raises before it changes anything
AppendToSheets ==
    /\ output_json.exists
    /\ Len(sheet) < run + MaxExternalRows
    /\ ats_row' = output_json.content
    /\ ats_values' = Values(ats_row', headers)
    /\ sheet' = Append(sheet, ats_values')
    /\ UNCHANGED <<pc, run, results_dict, assembled, row, values, appended,
                   output_json, headers,
                   loadVars, selectVars, fcVars, periodVars>>

NextRun ==
    \/ StartRun
    \/ ComputeForecasts
    \/ PrepareRow
    \/ ReadOutputJson
    \/ AppendRow
    \/ AppendToSheets

RunIdle ==
    /\ pc = "off"
    /\ run = 0
    /\ ProcessStart
    /\ output_json = NoFile
    /\ headers = << >>
    /\ sheet = << >>
    /\ ats_row = EmptyObject
    /\ ats_values = << >>

-----------------------------------------------------------------------------
(***************************************************************************)
(* The specifications                                                      *)
(***************************************************************************)

InitLoad == LoadStart /\ SelectIdle /\ ForecastIdle /\ PeriodsIdle /\ RunIdle
SpecLoad == InitLoad /\ [][NextLoad]_vars

InitSelect == LoadIdle /\ SelectStart /\ ForecastIdle /\ PeriodsIdle /\ RunIdle
SpecSelect == InitSelect /\ [][NextSelect]_vars

InitForecast == ForecastStart /\ SelectIdle /\ PeriodsIdle /\ RunIdle
SpecForecast == InitForecast /\ [][NextForecast]_vars

InitPeriods == LoadIdle /\ SelectIdle /\ ForecastIdle /\ PeriodsStart /\ RunIdle
SpecPeriods == InitPeriods /\ [][NextPeriods]_vars

InitRun == LoadIdle /\ SelectIdle /\ ForecastIdle /\ PeriodsIdle /\ RunStart
SpecRun == InitRun /\ [][NextRun]_vars

-----------------------------------------------------------------------------
(***************************************************************************)
(* Section 1: properties                                                   *)
(***************************************************************************)

SourceDates == {r.Date : r \in Range(csv)}
SourceCount(date) == (CHOOSE r \in Range(csv) : r.Date = date).Views

\* C8: the loaded series covers every day from the first to the last source
\* date once, in increasing order, adjacent dates one day apart; a date
\* absent from the source has count 0, a present date with a missing count has
\* count 0, a present date with a count keeps it.
C8_LoadedSeriesGapless ==
    lpc = "loaded" =>
        /\ Len(df) = index_max(csv) - index_min(csv) + 1
        /\ df[1].Date = index_min(csv)
        /\ \A k \in 1 .. (Len(df) - 1) : df[k + 1].Date = df[k].Date + 1
        /\ \A k \in DOMAIN df :
             df[k].Views =
                IF df[k].Date \notin SourceDates THEN 0
                ELSE IF SourceCount(df[k].Date) = NaN THEN 0
                ELSE SourceCount(df[k].Date)

\* C8 witness: an unsorted source with a gap, a missing count and a kept
\* nonzero count has been loaded
C8_Witness ==
    /\ lpc = "loaded"
    /\ \E i \in DOMAIN csv : csv[i].Views = NaN
    /\ \E i \in DOMAIN csv : csv[i].Views \in Counts \ {0}
    /\ \E i \in 1 .. (Len(csv) - 1) : csv[i].Date > csv[i + 1].Date
    /\ Len(df) > Len(csv)

-----------------------------------------------------------------------------
(***************************************************************************)
(* Sections 2-3: properties                                                *)
(***************************************************************************)

\* The candidates of the grid: 27 orders x 8 seasonal orders of period 7
Candidates ==
    {<< pdq[i], SeasonalOrder(seasonal_pdq[j]) >> :
        i \in DOMAIN pdq, j \in DOMAIN seasonal_pdq}

\* C1: when at least one candidate fits, the pair left after the grid search
\* is a candidate that was fitted successfully, best_aic is the AIC of that
\* fit and is less than or equal to the AIC of every fitted candidate; a
\* candidate whose fit raised is not selected.
C1_BestIsMinimalAIC ==
    (spc \in {"selected", "fitted", "failed"} /\ fitted_aics # {}) =>
        /\ << best_order, best_seasonal_order >> \in Candidates
        /\ fit_of_best.ok
        /\ fit_of_best.aic = best_aic
        /\ best_aic \in fitted_aics
        /\ \A a \in fitted_aics : best_aic <= a

\* C1 witness: the loop has ended, fits of every AIC value and a failure
\* happened, and the minimum was found at the last order of the grid
C1_Witness ==
    /\ spc = "selected"
    /\ fitted_aics = AICValues
    /\ best_order = pdq[Len(pdq)]
    /\ best_seasonal_order # SeasonalOrder(seasonal_pdq[1])
    /\ best_aic = 0

\* C2 (the code does not satisfy it): the final SARIMAX construction and fit is never invoked
\* with an undefined order or seasonal order.
C2_FinalFitNeverGetsNone ==
    model.called => (model.order # None /\ model.seasonal_order # None)

-----------------------------------------------------------------------------
(***************************************************************************)
(* Sections 4-5: properties                                                *)
(***************************************************************************)

\* The sum of f over a finite set of integers
RECURSIVE SetSum(_, _)
SetSum(f, S) ==
    IF S = {} THEN 0
    ELSE LET x == CHOOSE y \in S : TRUE IN f[x] + SetSum(f, S \ {x})

\* The sum of the observed counts on the series dates lying in [start, end]
ObservedTotal(start, end) ==
    LET inside == {k \in DOMAIN df : start <= df[k].Date /\ df[k].Date <= end}
    IN  SetSum([k \in DOMAIN df |-> df[k].Views], inside)

\* C3: for a period that ends before the latest observed date no prediction
\* is requested and Forecast = CI Lower = CI Upper = Actual, the sum of the
\* observed counts on the series dates in [start, end].
C3_PastPeriodIsActual ==
    (fpc = "returned" /\ end_date < last_observed) =>
        /\ get_forecast_steps = <<>>
        /\ result["Actual"] = ObservedTotal(start_date, end_date)
        /\ result["Forecast"] = result["Actual"]
        /\ result["CI Lower"] = result["Actual"]
        /\ result["CI Upper"] = result["Actual"]

\* C3 witness: a call for a period inside the observed history, with a
\* nonzero observed total, has returned
C3_Witness ==
    /\ fpc = "returned"
    /\ end_date < last_observed
    /\ start_date <= end_date
    /\ result["Actual"] > 0

\* The model's interval holds the predicted mean on every forecast day
IntervalsOrdered ==
    \A k \in DOMAIN forecast :
        forecast[k].lower <= forecast[k].mean /\ forecast[k].mean <= forecast[k].upper

\* C4: with forecast_days > 0 and any bias, if lower_i <= mean_i <= upper_i on
\* each forecast day then CI Lower <= Forecast <= CI Upper.
C4_IntervalOrderKept ==
    (fpc = "returned" /\ get_forecast_steps # <<>> /\ IntervalsOrdered) =>
        /\ result["CI Lower"] <= result["Forecast"]
        /\ result["Forecast"] <= result["CI Upper"]

\* C4 witness: a call with a nonzero bias and a horizon of two days or more
\* has returned a total strictly inside its interval
C4_Witness ==
    /\ fpc = "returned"
    /\ Len(forecast) >= 2
    /\ IntervalsOrdered
    /\ bias_daily # 0
    /\ result["CI Lower"] < result["Forecast"]
    /\ result["Forecast"] < result["CI Upper"]

-----------------------------------------------------------------------------
(***************************************************************************)
(* Section 6: properties                                                   *)
(***************************************************************************)

\* The first and the last day of the k-th month after the month of ts
FirstOfMonthAfter(ts, k) ==
    LET idx == ts.year * 12 + (ts.month - 1) + k
    IN  Timestamp(idx \div 12, (idx % 12) + 1, 1)
LastOfMonthAfter(ts, k) ==
    LET idx == ts.year * 12 + (ts.month - 1) + k
    IN  Timestamp(idx \div 12, (idx % 12) + 1,
                  days_in_month(idx \div 12, (idx % 12) + 1))

\* C7 (the code does not satisfy it): "Next Calendar Month" and "Next 3 Calendar Months" start
\* on the first day of the month following the run date's month and end on
\* the last day of the first, respectively third, month following it.
C7_NextMonthsAreWholeMonths ==
    ppc = "defined" =>
        /\ periods["Next Calendar Month"] =
              << FirstOfMonthAfter(today, 1), LastOfMonthAfter(today, 1) >>
        /\ periods["Next 3 Calendar Months"] =
              << FirstOfMonthAfter(today, 1), LastOfMonthAfter(today, 3) >>

-----------------------------------------------------------------------------
(***************************************************************************)
(* Sections 7-10 and append_to_sheets.py: properties                       *)
(***************************************************************************)

\* C5 (the code does not satisfy it): the record the forecasting script hands to the sink is
\* the record the same run assembled, with that run's Timestamp and its
\* seven rounded forecast totals.
C5_SinkGetsThisRunsRecord ==
    pc \in {"read", "done"} => row = assembled

\* C6 (the code does not satisfy it): every run that computed its forecasts and ended has
\* appended exactly one row.
C6_OneRowPerRun ==
    pc \in {"done", "crashed"} => appended = 1

\* vals is built positionally from the header row for the record
Positional(vals, record) ==
    /\ Len(vals) = Len(headers)
    /\ \A i \in 1 .. Len(headers) :
         vals[i] = IF headers[i] \in DOMAIN record THEN record[headers[i]]
                   ELSE EmptyString

\* C9: the appended row has one value per header cell, the i-th being the
\* record's value for the i-th header, or the empty string when the record
\* has no such key; a key that matches no header contributes nothing.  This
\* holds of both scripts.
C9_RowFollowsHeaders ==
    /\ pc = "done" => (Positional(values, row) /\ values \in Range(sheet))
    /\ ats_row # EmptyObject =>
          (Positional(ats_values, ats_row) /\ ats_values \in Range(sheet))
    /\ \A i \in DOMAIN sheet : Len(sheet[i]) = Len(headers)

\* C9 witness: a row was appended under two headers, one a key of the record
\* and one not, from a record with a key that is no header
C9_Witness ==
    /\ pc = "done"
    /\ Len(headers) = 2
    /\ headers[1] \notin DOMAIN row
    /\ headers[2] \in DOMAIN row
    /\ values[1] = EmptyString
    /\ values[2] # EmptyString
    /\ \E k \in DOMAIN row : k \notin Range(headers)
    /\ Len(sheet) >= 1

=============================================================================
